---- MODULE Spec2Model ----
(***************************************************************************)
(* A model of the jobscrape pipeline: the completion client                *)
(* (src/src/llm.py), the evaluation stage (src/src/ai_review.py), the page *)
(* store (src/src/db.py), the extraction stage (src/src/extract.py) and the *)
(* Notion export (src/src/notion.py).                                      *)
(*                                                                         *)
(* The specifications share the variables:                                 *)
(*   Spec         one call of llm, llm_async or llm_batch: the rate        *)
(*                limiter, the tasks of a batch, the endpoint, the gather; *)
(*   LimiterSpec  the steps of a batch that touch the limiter, per rate;   *)
(*   FairSpec     the same steps under the fairness of the event loop;     *)
(*   EmbedSpec    one call of embed: the token-budgeted split and the      *)
(*                embedding requests;                                      *)
(*   ScoreSpec    one call of combine_jobs_and_evaluations;                *)
(*   ReviewSpec   one run of run_ai_review, RerunSpec several in a row;    *)
(*   DbSpec       calls of save_page on the page store;                    *)
(*   ExtractSpec  one run of run_extraction;                               *)
(*   ChunkSpec    one call of split_long_rich_text;                        *)
(*   NotionSpec   calls of ensure_notion_database and one run of           *)
(*                export_to_notion.                                        *)
(* Time is counted in ticks of the event loop's clock, TicksPerSecond to   *)
(* the second.  A prompt is a sequence of characters.                      *)
(***************************************************************************)
EXTENDS Integers, Sequences, FiniteSets, TLC

VARIABLES
    \* ---- the caller's arguments (llm.py:132-210)
    call,            \* "llm" | "llm_async" | "llm_batch": the entry point used
    system_prompt,   \* [str |-> BOOLEAN, val |-> Seq(prompt)]: a str is val[1]
    user_prompt,     \* the same
    response_format, \* "None" | "schema" | the name of a schema class
    progress_bar,    \* BOOLEAN
    reqs_per_minute, \* OpenAIClient.__init__'s reqs_per_minute
    \* ---- the call
    status,          \* "idle" | "running" | "returned" | "raised"
    error,           \* the exception the call raised, NoError before
    result,          \* the values returned (a list for llm_batch)
    tasks,           \* the prompt pairs llm_batch zipped, one per task
    pc,              \* task -> "new" | "waiting" | "admitted" | "sent" | "done" | "failed"
    acquired,        \* task -> rate-limiter acquisitions granted to it
    sent,            \* task -> remote requests sent for it
    request,         \* task -> the messages and format of its request
    response,        \* task -> the response the endpoint gave to its request
    outcome,         \* task -> the value it returned or the error it raised
    completed,       \* the finished tasks in the order they finished
    \* ---- asynciolimiter.Limiter and the event loop's clock
    locked,          \* Limiter._locked
    waiters,         \* Limiter._waiters: the tasks suspended in wait()
    next_wakeup,     \* Limiter._next_wakeup
    now,             \* loop.time()
    grants,          \* the times of the acquisitions granted, in order
    \* ---- embed (llm.py:246-272)
    text,            \* embed's argument: [str |-> BOOLEAN, val |-> Seq(text)]
    max_embedding_tokens,
    epc,             \* "idle" | "loop" | "send" | "done"
    idx,             \* the loop's position in text
    batches, current_batch, current_token_count,
    requests,        \* the inputs of the embedding requests sent, in order
    results,         \* what each request returned: a list of vectors
    embeddings,      \* the vectors embed returned
    \* ---- combine_jobs_and_evaluations (ai_review.py:179-194)
    listings, evaluations,
    cpc,             \* "idle" | "loop" | "done"
    cidx,            \* pairs folded so far
    export_data,
    \* ---- run_ai_review (ai_review.py:196-203)
    rpc,             \* "idle" | "evaluate" | "combine" | "done" | "raised"
    files,           \* the files on disk: name -> content
    written,         \* what each completed run wrote, in the order of the runs
    runs,            \* the runs started
    \* ---- the capture store (db.py:9-50)
    pages,           \* the rows of table pages, in the order inserted
    saved,           \* the pages given to save_page, in the order of the calls
    \* ---- run_extraction (extract.py:130-146)
    xpc,             \* the next step: "idle" | "ids" | "dedupe" | "label" |
                     \* "extract" | "batch" | "write" | "done" | "raised"
    xtrace,          \* the steps run_extraction has taken, in order
    data,            \* the DataFrame: a sequence of rows
    existing_job_ids,
    xerror,          \* the exception run_extraction raised, NoError before
    \* ---- split_long_rich_text (notion.py:87-113)
    content,         \* the argument: a sequence of characters
    spc,             \* "idle" | "done"
    rich_text,       \* the list returned
    \* ---- the Notion workspace and export_to_notion (notion.py:13-64, 154-225)
    databases,       \* the ids of the databases of the workspace
    notion_pages,    \* the rows created, in the order created
    notion_db_id,    \* NOTION_DB_ID, then the database exported to
    npc,             \* "idle" | "loop" | "done" | "raised"
    nidx,            \* the records the loop of export_to_notion has passed
    attempts,        \* record -> calls of pages.create made for it
    nerror,          \* the exception export_to_notion raised, NoError before
    ensured          \* the calls of ensure_notion_database, in order

argVars == <<call, system_prompt, user_prompt, response_format, progress_bar,
             reqs_per_minute>>
batchVars == <<argVars, status, error, result, tasks, pc, acquired, sent, request,
               response, outcome, completed, locked, waiters, next_wakeup, now,
               grants>>
embedVars == <<text, max_embedding_tokens, epc, idx, batches, current_batch,
               current_token_count, requests, results, embeddings>>
scoreVars == <<listings, evaluations, cpc, cidx, export_data>>
reviewVars == <<rpc, files, written, runs>>
dbVars == <<pages, saved>>
extractVars == <<xpc, xtrace, data, existing_job_ids, xerror>>
chunkVars == <<content, spc, rich_text>>
notionVars == <<databases, notion_pages, notion_db_id, npc, nidx, attempts, nerror,
                ensured>>
pipelineVars == <<reviewVars, dbVars, extractVars, chunkVars, notionVars>>
vars == <<batchVars, embedVars, scoreVars, pipelineVars>>

(***************************************************************************)
(* Bounds of the model.                                                    *)
(***************************************************************************)
MaxN == 2        \* the longest prompt list given to llm_batch under Spec
MaxWaiters == 3  \* the largest batch under LimiterSpec and FairSpec
MaxLate == 1     \* how many intervals late the event loop may run a due wakeup
MaxTexts == 3    \* the longest list of texts given to embed
MaxCeiling == 4  \* the largest max_embedding_tokens
MaxPairs == 2    \* the longest list given to combine_jobs_and_evaluations
MaxListings == 2 \* the longest list of postings in data/listings.json
MaxRuns == 2     \* the runs of run_ai_review in a row
MaxSaves == 3    \* the calls of save_page
MaxRows == 3     \* the pages saved before run_extraction reads the store
MaxContent == 8  \* the longest string given to split_long_rich_text
MaxExport == 3   \* the longest list in data/export_data.json under NotionSpec
MaxEnsure == 2   \* the calls of ensure_notion_database

Min(a, b) == IF a <= b THEN a ELSE b
Max(a, b) == IF a >= b THEN a ELSE b
Range(s) == {s[i] : i \in 1..Len(s)}
SeqsUpTo(S, n) == UNION {[1..k -> S] : k \in 0..n}

(***************************************************************************)
(* clean_string (llm.py:275-279): strip, then dedent, twice.  The prompts  *)
(* of the model are single lines: dedent removes the indentation of a      *)
(* single line and turns a line of whitespace into the empty string.       *)
(***************************************************************************)
IsSpace(c) == c = " "

RECURSIVE lstrip(_)
lstrip(s) == IF s # <<>> /\ IsSpace(Head(s)) THEN lstrip(Tail(s)) ELSE s

RECURSIVE rstrip(_)
rstrip(s) ==
    IF s # <<>> /\ IsSpace(s[Len(s)]) THEN rstrip(SubSeq(s, 1, Len(s) - 1)) ELSE s

strip(s) == rstrip(lstrip(s))

dedent(s) == IF \A i \in 1..Len(s) : IsSpace(s[i]) THEN <<>> ELSE lstrip(s)

clean_string(s) == dedent(strip(dedent(strip(s))))

Prompts == { <<"a">>, <<" ", "b", " ">> }

Str(p) == [str |-> TRUE, val |-> <<p>>]
List(l) == [str |-> FALSE, val |-> l]

\* The prompt lists of the model: p, q, p, ... for two different prompts, so
\* that neighbouring pairs of a batch differ.
Alternating(p, q, n) == [i \in 1..n |-> IF i % 2 = 1 THEN p ELSE q]
PromptLists(n) ==
    {Alternating(pq[1], pq[2], k) :
        pq \in {x \in Prompts \X Prompts : x[1] # x[2]}, k \in 0..n}
PromptArgs == {Str(p) : p \in Prompts} \cup {List(l) : l \in PromptLists(MaxN)}

(***************************************************************************)
(* Values and errors.  Every value is a record of one shape.               *)
(***************************************************************************)
None == [kind |-> "None", of |-> <<>>]
NoError == [kind |-> "NoError", of |-> <<>>]
TypeError == [kind |-> "TypeError", of |-> <<>>]          \* llm.py:212
LengthError == [kind |-> "ValueError: lengths", of |-> <<>>]   \* llm.py:218
NoContent == [kind |-> "ValueError: No content in response", of |-> <<>>]
NoParsed == [kind |-> "ValueError: No parsed response", of |-> <<>>]
TransportError == [kind |-> "APIError", of |-> <<>>]
Errors == {TypeError, LengthError, NoContent, NoParsed, TransportError}
UsageErrors == {TypeError, LengthError}

YNM == {"yes", "no", "maybe"}

\* JobEvaluation (ai_review.py:32-49): seven judgments.
JobEvaluation ==
    [eval_role_type : YNM, eval_seniority : YNM, eval_location : YNM,
     eval_positive_industry : YNM, eval_negative_industry : YNM,
     eval_startup : YNM, eval_salary : YNM]

AllAnswer(a) ==
    [eval_role_type |-> a, eval_seniority |-> a, eval_location |-> a,
     eval_positive_industry |-> a, eval_negative_industry |-> a,
     eval_startup |-> a, eval_salary |-> a]

\* The remote endpoint, stubbed to echo a token derived from the prompt pair it
\* was sent: the raw text of a reply and the instance parsed from it.
RawText(messages) == [kind |-> "text", of |-> messages]
Parsed(messages) == [kind |-> "parsed", of |-> messages]

\* An instance of the schema class a request names, as the endpoint parsed it.
Instance(x) == [kind |-> "parsed", of |-> x]

\* The ExtractedJobPosting the endpoint gives for an advert (typedefs.py:21-37):
\* the job_title, which stands for the eleven fields, is the advert's text.
Extraction(advert) == [job_title |-> advert]

\* The evaluations the endpoint gives under the JobEvaluation schema.
ReviewEvaluations == {AllAnswer("yes"), AllAnswer("no")}

\* The responses the endpoint may give to a request: .create returns a message
\* with or without content; .parse returns a message with its raw content and
\* the parsed instance, with content and no parsed instance, or with neither.
Message(c, p) == [failed |-> FALSE, content |-> c, parsed |-> p]
Responses(req) ==
    IF req.response_format = "None"
    THEN { Message(RawText(req.messages), None), Message(None, None) }
    ELSE IF req.response_format = "JobEvaluation"
    THEN { Message(RawText(req.messages), Instance(e)) : e \in ReviewEvaluations }
         \cup { Message(RawText(req.messages), None), Message(None, None) }
    ELSE IF req.response_format = "ExtractedJobPosting"
    THEN { Message(RawText(req.messages), Instance(Extraction(req.messages[2]))),
           Message(RawText(req.messages), None),
           Message(None, None) }
    ELSE { Message(RawText(req.messages), Parsed(req.messages)),
           Message(RawText(req.messages), None),
           Message(None, None) }

\* The transport failed: the request raised and there is no message.
TransportFailure == [failed |-> TRUE, content |-> None, parsed |-> None]
NoResponse == [failed |-> FALSE, content |-> None, parsed |-> None]

\* _chat / _chat_async (llm.py:42-60): what the call makes of a response.
_chat(r) ==
    IF r.content = None THEN NoContent ELSE r.content

\* Mutant: a message without a parsed instance falls back to its raw content.
_structured_chat_fallback(r) ==
    IF r.parsed = None THEN r.content ELSE r.parsed

\* _structured_chat / _structured_chat_async (llm.py:62-86).
_structured_chat(r) ==
    IF r.parsed = None THEN NoParsed ELSE r.parsed

\* chat / chat_async (llm.py:94-97, 106-111): the branch on response_format.
chat(fmt, r) ==
    IF fmt = "None" THEN _chat(r) ELSE _structured_chat(r)

\* llm / llm_async (llm.py:139-146, 174-181): the messages of a prompt pair.
Messages(pair) == <<clean_string(pair[1]), clean_string(pair[2])>>


(***************************************************************************)
(* llm_batch's handling of its two prompt arguments (llm.py:211-230).      *)
(***************************************************************************)
\* Mutant: the lengths of two lists are not compared, and zip cuts the longer.
BatchCheckNoLength(sp, up) ==
    IF sp.str /\ up.str THEN TypeError ELSE NoError

\* The argument check: two strs are no batch, two lists must agree in length.
BatchCheck(sp, up) ==
    IF sp.str /\ up.str THEN TypeError
    ELSE IF sp.str \/ up.str THEN NoError
    ELSE IF Len(sp.val) # Len(up.val) THEN LengthError
    ELSE NoError

\* [system_prompt] * len(user_prompt) (llm.py:213-214).
SystemList(sp, up) ==
    IF sp.str THEN [i \in 1..Len(up.val) |-> sp.val[1]] ELSE sp.val

\* [user_prompt] * len(system_prompt) (llm.py:215-216).
UserList(sp, up) ==
    IF ~sp.str /\ up.str THEN [i \in 1..Len(sp.val) |-> up.val[1]] ELSE up.val

\* Python's zip: as long as the shorter argument.
zip(a, b) == [i \in 1..Min(Len(a), Len(b)) |-> <<a[i], b[i]>>]

NoRequest == [messages |-> <<>>, response_format |-> "None"]

NewTasks(n, first) ==
    /\ pc' = [i \in 1..n |-> first]
    /\ acquired' = [i \in 1..n |-> 0]
    /\ sent' = [i \in 1..n |-> 0]
    /\ request' = [i \in 1..n |-> NoRequest]
    /\ response' = [i \in 1..n |-> NoResponse]
    /\ outcome' = [i \in 1..n |-> None]

\* llm_batch up to the creation of its tasks (llm.py:211-230).
llm_batch ==
    /\ call = "llm_batch"
    /\ status = "idle"
    /\ LET e == BatchCheck(system_prompt, user_prompt) IN
       IF e # NoError
       THEN /\ status' = "raised"
            /\ error' = e
            /\ UNCHANGED <<tasks, pc, acquired, sent, request, response, outcome>>
       ELSE /\ tasks' = zip(SystemList(system_prompt, user_prompt),
                            UserList(system_prompt, user_prompt))
            /\ NewTasks(Len(tasks'), "new")
            /\ status' = "running"
            /\ UNCHANGED error
    /\ UNCHANGED <<argVars, result, completed, locked, waiters,
                   next_wakeup, now, grants>>
    /\ UNCHANGED <<embedVars, scoreVars, pipelineVars>>

\* llm_async called on its own (llm.py:167-181): one call of chat_async.
llm_async ==
    /\ call = "llm_async"
    /\ status = "idle"
    /\ tasks' = <<<<system_prompt.val[1], user_prompt.val[1]>>>>
    /\ NewTasks(1, "new")
    /\ status' = "running"
    /\ UNCHANGED <<argVars, error, result, completed, locked, waiters,
                   next_wakeup, now, grants>>
    /\ UNCHANGED <<embedVars, scoreVars, pipelineVars>>

\* llm (llm.py:132-146) and chat (llm.py:88-97): the synchronous call sends its
\* request at once; the rate limiter is not consulted.
llm ==
    /\ call = "llm"
    /\ status = "idle"
    /\ tasks' = <<<<system_prompt.val[1], user_prompt.val[1]>>>>
    /\ pc' = <<"sent">>
    /\ acquired' = <<0>>
    /\ sent' = <<1>>
    /\ request' = <<[messages |-> Messages(tasks'[1]),
                     response_format |-> response_format]>>
    /\ response' = <<NoResponse>>
    /\ outcome' = <<None>>
    /\ status' = "running"
    /\ UNCHANGED <<argVars, error, result, completed, locked, waiters,
                   next_wakeup, now, grants>>
    /\ UNCHANGED <<embedVars, scoreVars, pipelineVars>>

(***************************************************************************)
(* The rate limiter: asynciolimiter.Limiter(reqs_per_minute / 60), a       *)
(* third-party class the repository configures (llm.py:36) and awaits      *)
(* (llm.py:105).  Its steps are modelled from section 4.1 of the           *)
(* specification and the library's contract: a call of wait() on an        *)
(* unlocked limiter is granted at once and locks it for one interval; a    *)
(* call on a locked limiter suspends; the timer wakes one waiter per       *)
(* interval elapsed, at most max_burst at once, and unlocks the limiter    *)
(* when it finds fewer waiters than it may wake.  The order in which       *)
(* waiters are served is left open.                                        *)
(***************************************************************************)
\* reqs_per_minute: the constructor's default (llm.py:27), the rate of the
\* client of run_ai_review (ai_review.py:198), and one between them.
DefaultRate == 60
ReviewRate == 240
Rates == {DefaultRate, 2 * DefaultRate, ReviewRate}

\* The clock ticks once per interval of the fastest client, a quarter of a second.
TicksPerSecond == ReviewRate \div DefaultRate

\* Mutant: Limiter(reqs_per_minute), a rate of reqs_per_minute calls per second;
\* an interval below one tick counts as one tick.
TimeBetweenCallsPerSecond == Max(1, TicksPerSecond \div reqs_per_minute)

\* Limiter(rate)._time_between_calls = 1 / rate, with rate = reqs_per_minute / 60
\* calls per second (llm.py:36); in ticks.
TimeBetweenCalls == (60 * TicksPerSecond) \div reqs_per_minute

MaxBurst == 5

\* Mutant: a call of wait() on a locked limiter suspends without being queued.
LimiterWaitUnqueued(i) ==
    IF ~locked
    THEN /\ locked' = TRUE
         /\ next_wakeup' = now + TimeBetweenCalls
         /\ acquired' = [acquired EXCEPT ![i] = @ + 1]
         /\ grants' = Append(grants, now)
         /\ pc' = [pc EXCEPT ![i] = "admitted"]
         /\ UNCHANGED waiters
    ELSE /\ pc' = [pc EXCEPT ![i] = "waiting"]
         /\ UNCHANGED <<locked, waiters, next_wakeup, acquired, grants>>

\* Limiter.wait() as called by task i.
LimiterWait(i) ==
    IF ~locked
    THEN /\ locked' = TRUE
         /\ next_wakeup' = now + TimeBetweenCalls
         /\ acquired' = [acquired EXCEPT ![i] = @ + 1]
         /\ grants' = Append(grants, now)
         /\ pc' = [pc EXCEPT ![i] = "admitted"]
         /\ UNCHANGED waiters
    ELSE /\ waiters' = waiters \cup {i}
         /\ pc' = [pc EXCEPT ![i] = "waiting"]
         /\ UNCHANGED <<locked, next_wakeup, acquired, grants>>

\* n copies of t appended to s.
RECURSIVE AppendTimes(_, _, _)
AppendTimes(s, t, n) == IF n = 0 THEN s ELSE AppendTimes(Append(s, t), t, n - 1)

\* Limiter._wakeup, run by the event loop at or after _next_wakeup.
Wakeup ==
    /\ locked
    /\ now >= next_wakeup
    /\ LET missed == (now - next_wakeup) \div TimeBetweenCalls
           to_wakeup == Min(missed + 1, MaxBurst)
       IN \E woken \in SUBSET waiters :
            /\ Cardinality(woken) = Min(to_wakeup, Cardinality(waiters))
            /\ waiters' = waiters \ woken
            /\ pc' = [i \in DOMAIN pc |-> IF i \in woken THEN "admitted" ELSE pc[i]]
            /\ acquired' = [i \in DOMAIN acquired |->
                              IF i \in woken THEN acquired[i] + 1 ELSE acquired[i]]
            /\ grants' = AppendTimes(grants, now, Cardinality(woken))
            /\ IF Cardinality(woken) < to_wakeup
               THEN locked' = FALSE /\ UNCHANGED next_wakeup
               ELSE /\ next_wakeup' = next_wakeup + (missed + 1) * TimeBetweenCalls
                    /\ UNCHANGED locked
    /\ UNCHANGED <<argVars, status, error, result, tasks, sent, request,
                   response, outcome, completed, now>>
    /\ UNCHANGED <<embedVars, scoreVars, pipelineVars>>

\* The clock of the event loop advances.  Only the limiter's timer reads it, and
\* the loop runs a due timer at most MaxLate intervals late.
Tick ==
    /\ locked
    /\ now < next_wakeup + MaxLate * TimeBetweenCalls
    /\ now' = now + 1
    /\ UNCHANGED <<argVars, status, error, result, tasks, pc, acquired, sent,
                   request, response, outcome, completed, locked, waiters, next_wakeup, grants>>
    /\ UNCHANGED <<embedVars, scoreVars, pipelineVars>>

(***************************************************************************)
(* The steps of one call of chat_async (llm.py:99-111).                    *)
(***************************************************************************)
\* Mutant: self.rate_limiter.wait() without await: the coroutine never runs and
\* the call goes on to its request.
chat_async_no_await(i) ==
    /\ pc[i] = "new"
    /\ progress_bar \/ \A j \in 1..(i - 1) : pc[j] # "new"
    /\ pc' = [pc EXCEPT ![i] = "admitted"]
    /\ UNCHANGED <<argVars, status, error, result, tasks, acquired, sent, request,
                   response, outcome, completed, locked, waiters, next_wakeup, now,
                   grants>>
    /\ UNCHANGED <<embedVars, scoreVars, pipelineVars>>

\* await self.rate_limiter.wait() (llm.py:105).  asyncio.gather starts its tasks
\* in argument order; tqdm's gather hands them to as_completed, which starts
\* them in the order of a set.
chat_async_wait(i) ==
    /\ pc[i] = "new"
    /\ progress_bar \/ \A j \in 1..(i - 1) : pc[j] # "new"
    /\ LimiterWait(i)
    /\ UNCHANGED <<argVars, status, error, result, tasks, sent, request,
                   response, outcome, completed, now>>
    /\ UNCHANGED <<embedVars, scoreVars, pipelineVars>>

\* The request of _chat_async / _structured_chat_async leaves (llm.py:53, 78).
chat_async_send(i) ==
    /\ pc[i] = "admitted"
    /\ pc' = [pc EXCEPT ![i] = "sent"]
    /\ sent' = [sent EXCEPT ![i] = @ + 1]
    /\ request' = [request EXCEPT ![i] =
                     [messages |-> Messages(tasks[i]),
                      response_format |-> response_format]]
    /\ UNCHANGED <<argVars, status, error, result, tasks, acquired, response,
                   outcome, completed, locked, waiters, next_wakeup, now, grants>>
    /\ UNCHANGED <<embedVars, scoreVars, pipelineVars>>

Finish(i, r, value) ==
    /\ response' = [response EXCEPT ![i] = r]
    /\ outcome' = [outcome EXCEPT ![i] = value]
    /\ pc' = [pc EXCEPT ![i] = IF value \in Errors THEN "failed" ELSE "done"]
    /\ completed' = Append(completed, i)

\* The endpoint answers request i, or the transport fails; the call returns the
\* value or raises (llm.py:48-50, 58-60, 71-73, 84-86).
Respond(i) ==
    /\ pc[i] = "sent"
    /\ \/ Finish(i, TransportFailure, TransportError)
       \/ \E r \in Responses(request[i]) :
            Finish(i, r, chat(request[i].response_format, r))
    /\ UNCHANGED <<argVars, status, error, result, tasks, acquired, sent,
                   request, locked, waiters, next_wakeup, now, grants>>
    /\ UNCHANGED <<embedVars, scoreVars, pipelineVars>>

(***************************************************************************)
(* The end of the call.                                                    *)
(***************************************************************************)
\* Mutant: the values are returned in the order the tasks completed.
GatherAsCompleted(pb, done, out) == [k \in 1..Len(done) |-> out[done[k]]]

\* tqdm_asyncio.gather collects (index, value) pairs as the tasks complete and
\* returns the values sorted by index; asyncio.gather fills its list by index
\* (llm.py:231-234).
Gather(pb, done, out) ==
    IF pb
    THEN LET byIndex == SortSeq(done, LAMBDA a, b : a < b)
         IN [k \in 1..Len(byIndex) |-> out[byIndex[k]]]
    ELSE [i \in 1..Len(done) |-> out[i]]

\* The first task to have failed, in completion order.
FirstFailed == LET k == CHOOSE k \in 1..Len(completed) :
                          /\ pc[completed[k]] = "failed"
                          /\ \A j \in 1..(k - 1) : pc[completed[j]] # "failed"
               IN completed[k]

\* Mutant: gather(..., return_exceptions=True): the list is returned once every
\* task has ended, the exceptions in it.
gather_return_exceptions ==
    /\ call = "llm_batch"
    /\ status = "running"
    /\ \A i \in DOMAIN pc : pc[i] \in {"done", "failed"}
    /\ result' = Gather(progress_bar, completed, outcome)
    /\ status' = "returned"
    /\ UNCHANGED <<argVars, error, tasks, pc, acquired, sent, request, response,
                   outcome, completed, locked, waiters, next_wakeup, now, grants>>
    /\ UNCHANGED <<embedVars, scoreVars, pipelineVars>>

\* Every task returned: the gather returns the list (llm.py:232, 234).
gather_return ==
    /\ call = "llm_batch"
    /\ status = "running"
    /\ \A i \in DOMAIN pc : pc[i] = "done"
    /\ result' = Gather(progress_bar, completed, outcome)
    /\ status' = "returned"
    /\ UNCHANGED <<argVars, error, tasks, pc, acquired, sent, request,
                   response, outcome, completed, locked, waiters, next_wakeup, now, grants>>
    /\ UNCHANGED <<embedVars, scoreVars, pipelineVars>>

\* A task raised: the gather raises its exception in llm_batch; the other tasks
\* are not cancelled by the gather (llm.py:232, 234).
gather_raise ==
    /\ call = "llm_batch"
    /\ status = "running"
    /\ \E i \in DOMAIN pc : pc[i] = "failed"
    /\ error' = outcome[FirstFailed]
    /\ status' = "raised"
    /\ UNCHANGED <<argVars, result, tasks, pc, acquired, sent, request,
                   response, outcome, completed, locked, waiters, next_wakeup, now, grants>>
    /\ UNCHANGED <<embedVars, scoreVars, pipelineVars>>

\* llm and llm_async return what chat / chat_async returned, or raise what it
\* raised (llm.py:139, 174).
llm_return ==
    /\ call \in {"llm", "llm_async"}
    /\ status = "running"
    /\ pc[1] \in {"done", "failed"}
    /\ IF pc[1] = "done"
       THEN result' = <<outcome[1]>> /\ status' = "returned" /\ UNCHANGED error
       ELSE error' = outcome[1] /\ status' = "raised" /\ UNCHANGED result
    /\ UNCHANGED <<argVars, tasks, pc, acquired, sent, request,
                   response, outcome, completed, locked, waiters, next_wakeup, now, grants>>
    /\ UNCHANGED <<embedVars, scoreVars, pipelineVars>>

(***************************************************************************)
(* Initial states.                                                         *)
(***************************************************************************)
EmbedIdle ==
    /\ text = List(<<>>)
    /\ max_embedding_tokens = 0
    /\ epc = "idle"
    /\ idx = 0
    /\ batches = <<>>
    /\ current_batch = <<>>
    /\ current_token_count = 0
    /\ requests = <<>>
    /\ results = <<>>
    /\ embeddings = <<>>

ScoreIdle ==
    /\ listings = <<>>
    /\ evaluations = <<>>
    /\ cpc = "idle"
    /\ cidx = 0
    /\ export_data = <<>>

ReviewIdle ==
    /\ rpc = "idle"
    /\ files = [n \in {} |-> <<>>]
    /\ written = <<>>
    /\ runs = 0

DbIdle ==
    /\ pages = <<>>
    /\ saved = <<>>

ExtractIdle ==
    /\ xpc = "idle"
    /\ xtrace = <<>>
    /\ data = <<>>
    /\ existing_job_ids = {}
    /\ xerror = NoError

ChunkIdle ==
    /\ content = <<>>
    /\ spc = "idle"
    /\ rich_text = <<>>

NotionIdle ==
    /\ databases = {}
    /\ notion_pages = <<>>
    /\ notion_db_id = None
    /\ npc = "idle"
    /\ nidx = 0
    /\ attempts = <<>>
    /\ nerror = NoError
    /\ ensured = <<>>

PipelineIdle == ReviewIdle /\ DbIdle /\ ExtractIdle /\ ChunkIdle /\ NotionIdle

BatchFresh ==
    /\ status = "idle"
    /\ error = NoError
    /\ result = <<>>
    /\ tasks = <<>>
    /\ pc = <<>>
    /\ acquired = <<>>
    /\ sent = <<>>
    /\ request = <<>>
    /\ response = <<>>
    /\ outcome = <<>>
    /\ completed = <<>>
    /\ locked = FALSE
    /\ waiters = {}
    /\ next_wakeup = 0
    /\ now = 0
    /\ grants = <<>>

BatchInit ==
    /\ call \in {"llm", "llm_async", "llm_batch"}
    /\ system_prompt \in PromptArgs
    /\ user_prompt \in PromptArgs
    /\ call # "llm_batch" => system_prompt.str /\ user_prompt.str
    /\ response_format \in {"None", "schema"}
    /\ progress_bar \in BOOLEAN
    /\ call # "llm_batch" => ~progress_bar
    /\ reqs_per_minute = ReviewRate
    /\ BatchFresh

Init == BatchInit /\ EmbedIdle /\ ScoreIdle /\ PipelineIdle

\* The batches of LimiterSpec and FairSpec: one system prompt for up to
\* MaxWaiters user prompts, under each rate.
LimiterInit ==
    /\ call = "llm_batch"
    /\ system_prompt = Str(<<"a">>)
    /\ user_prompt \in {List(Alternating(<<"a">>, <<" ", "b", " ">>, k)) :
                          k \in 0..MaxWaiters}
    /\ response_format = "schema"
    /\ progress_bar \in BOOLEAN
    /\ reqs_per_minute \in Rates
    /\ BatchFresh
    /\ EmbedIdle
    /\ ScoreIdle
    /\ PipelineIdle

Next ==
    \/ llm_batch
    \/ llm_async
    \/ llm
    \/ \E i \in DOMAIN pc : chat_async_wait(i)
    \/ \E i \in DOMAIN pc : chat_async_send(i)
    \/ \E i \in DOMAIN pc : Respond(i)
    \/ Wakeup
    \/ Tick
    \/ gather_return
    \/ gather_raise
    \/ llm_return

Spec == Init /\ [][Next]_vars

\* The steps that read or write the limiter and the clock.
LimiterNext ==
    \/ llm_batch
    \/ \E i \in DOMAIN pc : chat_async_wait(i)
    \/ \E i \in DOMAIN pc : chat_async_send(i)
    \/ Wakeup
    \/ Tick

LimiterSpec == LimiterInit /\ [][LimiterNext]_vars

\* The event loop runs a due timer and its clock advances.  The batches are
\* those of LimiterInit under the two faster rates.
FairInit == LimiterInit /\ reqs_per_minute # DefaultRate

FairSpec == FairInit /\ [][LimiterNext]_vars /\ WF_vars(Wakeup) /\ WF_vars(Tick)


(***************************************************************************)
(* embed (llm.py:246-272).  A text is a sequence of tokens: the tokenizer  *)
(* of _count_tokens (llm.py:38-40) yields one token per element.           *)
(***************************************************************************)
_count_tokens(t) == Len(t)

Texts == { <<"a">>, <<"b", "b">>, <<"c", "c", "c">> }

RECURSIVE SumTokens(_)
SumTokens(l) == IF l = <<>> THEN 0 ELSE _count_tokens(Head(l)) + SumTokens(Tail(l))

RECURSIVE Flatten(_)
Flatten(ll) == IF ll = <<>> THEN <<>> ELSE Head(ll) \o Flatten(Tail(ll))

\* The embedding endpoint: one vector per text of the request, in request order.
Vector(t) == <<"embedding", t>>
Endpoint(input) ==
    [i \in 1..Len(input) |-> [index |-> i - 1, embedding |-> Vector(input[i])]]

\* _embed (llm.py:236-244): one request; the embedding of each item of the
\* response's data, in the order of the data.
_embed(input) ==
    LET items == Endpoint(input) IN [i \in 1..Len(items) |-> items[i].embedding]

SplitState(bs, cb, cnt) ==
    [batches |-> bs, current_batch |-> cb, current_token_count |-> cnt]

\* Mutant: the text is added before the ceiling is checked.
SplitStepCheckAfter(bs, cb, cnt, t, T) ==
    LET n == _count_tokens(t) IN
    IF cnt + n > T
    THEN SplitState(Append(bs, Append(cb, t)), <<>>, 0)
    ELSE SplitState(bs, Append(cb, t), cnt + n)

\* One pass of the loop over the texts (llm.py:260-267).
SplitStep(bs, cb, cnt, t, T) ==
    LET n == _count_tokens(t) IN
    IF cnt + n > T
    THEN SplitState(Append(bs, cb), <<t>>, n)
    ELSE SplitState(bs, Append(cb, t), cnt + n)

\* embed up to its first request or the start of its loop (llm.py:247-259).
embed ==
    /\ epc = "idle"
    /\ IF text.str \/ SumTokens(text.val) <= max_embedding_tokens
       THEN /\ batches' = <<text.val>>
            /\ epc' = "send"
       ELSE /\ batches' = <<>>
            /\ epc' = "loop"
    /\ current_batch' = <<>>
    /\ current_token_count' = 0
    /\ idx' = 0
    /\ UNCHANGED <<text, max_embedding_tokens, requests, results, embeddings>>
    /\ UNCHANGED <<batchVars, scoreVars, pipelineVars>>

\* for t in text (llm.py:260-267).
embed_loop ==
    /\ epc = "loop"
    /\ idx < Len(text.val)
    /\ LET st == SplitStep(batches, current_batch, current_token_count,
                           text.val[idx + 1], max_embedding_tokens)
       IN /\ batches' = st.batches
          /\ current_batch' = st.current_batch
          /\ current_token_count' = st.current_token_count
    /\ idx' = idx + 1
    /\ UNCHANGED <<text, max_embedding_tokens, epc, requests, results, embeddings>>
    /\ UNCHANGED <<batchVars, scoreVars, pipelineVars>>

\* Mutant: the batch open at the end of the loop is not appended.
embed_close_drop_last ==
    /\ epc = "loop"
    /\ idx = Len(text.val)
    /\ epc' = "send"
    /\ UNCHANGED <<text, max_embedding_tokens, idx, batches, current_batch,
                   current_token_count, requests, results, embeddings>>
    /\ UNCHANGED <<batchVars, scoreVars, pipelineVars>>

\* batches.append(current_batch) after the loop (llm.py:268).
embed_close ==
    /\ epc = "loop"
    /\ idx = Len(text.val)
    /\ batches' = Append(batches, current_batch)
    /\ epc' = "send"
    /\ UNCHANGED <<text, max_embedding_tokens, idx, current_batch,
                   current_token_count, requests, results, embeddings>>
    /\ UNCHANGED <<batchVars, scoreVars, pipelineVars>>

\* The next batch is sent and answered (llm.py:248, 253, 269-271).
embed_request ==
    /\ epc = "send"
    /\ Len(requests) < Len(batches)
    /\ LET batch == batches[Len(requests) + 1]
       IN /\ requests' = Append(requests, batch)
          /\ results' = Append(results, _embed(batch))
    /\ UNCHANGED <<text, max_embedding_tokens, epc, idx, batches, current_batch,
                   current_token_count, embeddings>>
    /\ UNCHANGED <<batchVars, scoreVars, pipelineVars>>

\* embed returns the vectors of its requests, flattened (llm.py:248, 253, 272).
embed_return ==
    /\ epc = "send"
    /\ Len(requests) = Len(batches)
    /\ embeddings' = Flatten(results)
    /\ epc' = "done"
    /\ UNCHANGED <<text, max_embedding_tokens, idx, batches, current_batch,
                   current_token_count, requests, results>>
    /\ UNCHANGED <<batchVars, scoreVars, pipelineVars>>

BatchIdle ==
    /\ call = "llm"
    /\ system_prompt = Str(<<>>)
    /\ user_prompt = Str(<<>>)
    /\ response_format = "None"
    /\ progress_bar = FALSE
    /\ reqs_per_minute = DefaultRate
    /\ BatchFresh

EmbedInit ==
    /\ text \in {Str(t) : t \in Texts} \cup {List(l) : l \in SeqsUpTo(Texts, MaxTexts)}
    /\ max_embedding_tokens \in 1..MaxCeiling
    /\ epc = "idle"
    /\ idx = 0
    /\ batches = <<>>
    /\ current_batch = <<>>
    /\ current_token_count = 0
    /\ requests = <<>>
    /\ results = <<>>
    /\ embeddings = <<>>
    /\ BatchIdle
    /\ ScoreIdle
    /\ PipelineIdle

EmbedNext == embed \/ embed_loop \/ embed_close \/ embed_request \/ embed_return

EmbedSpec == EmbedInit /\ [][EmbedNext]_vars

\* C8: the sub-batches embed sends, concatenated in the order sent, are the
\* list of texts it was given, and each holds at most max_embedding_tokens
\* tokens unless it is one text that alone holds more.
C8_BatchesPartitionWithinCeiling ==
    epc = "done" =>
        /\ Flatten(requests) = text.val
        /\ \A k \in 1..Len(requests) :
             \/ SumTokens(requests[k]) <= max_embedding_tokens
             \/ /\ Len(requests[k]) = 1
                /\ _count_tokens(requests[k][1]) > max_embedding_tokens
        /\ text.str => requests = <<text.val>>

\* C8's case: a list was split, one sub-batch holding two texts and another a
\* single text over the ceiling.
C8_Witness ==
    /\ epc = "done"
    /\ ~text.str
    /\ \E k \in 1..Len(requests) : Len(requests[k]) = 2
    /\ \E k \in 1..Len(requests) :
         Len(requests[k]) = 1 /\ SumTokens(requests[k]) > max_embedding_tokens

\* C9: embed returns one vector per text, the i-th the vector of the i-th text,
\* whether it sent one request or several.
C9_OneVectorPerTextInOrder ==
    epc = "done" =>
        /\ Len(embeddings) = Len(text.val)
        /\ \A i \in 1..Len(text.val) : embeddings[i] = Vector(text.val[i])

\* C9's case: three different texts were embedded by more than one request.
C9_Witness ==
    /\ epc = "done"
    /\ Len(text.val) = 3
    /\ Cardinality(Range(text.val)) = 3
    /\ Len(requests) >= 2
    /\ Len(embeddings) = 3

\* C21: given a text or a list that holds at least one text, embed sends no
\* request with an empty list of texts, whatever the ceiling, also when the
\* first text alone holds more tokens than the ceiling.
C21_NoEmptyRequest ==
    (text.str \/ text.val # <<>>) =>
        \A k \in 1..Len(requests) : requests[k] # <<>>

(***************************************************************************)
(* combine_jobs_and_evaluations (ai_review.py:179-194).                    *)
(***************************************************************************)
\* The postings of the model: the job_id, and the job_title that stands for the
\* eleven extracted fields.
JobPostings == { [job_id |-> "4001", job_title |-> <<"a">>],
                 [job_id |-> "4002", job_title |-> <<"b">>] }

\* Python's int of a bool.
int(b) == IF b THEN 1 ELSE 0

\* Mutant: the negative-industry term counts a "yes" and is added like the others.
evaluation_score_all_added(eval) ==
    int(eval.eval_role_type = "yes")
    + int(eval.eval_seniority = "yes")
    + int(eval.eval_location = "yes")
    + int(eval.eval_positive_industry = "yes")
    + int(eval.eval_negative_industry = "yes")
    + int(eval.eval_startup = "yes")
    + int(eval.eval_salary = "yes")

\* d['evaluation_score'] (ai_review.py:184-192).
evaluation_score(eval) ==
    int(eval.eval_role_type = "yes")
    + int(eval.eval_seniority = "yes")
    + int(eval.eval_location = "yes")
    + int(eval.eval_positive_industry = "yes")
    - int(eval.eval_negative_industry = "no")
    + int(eval.eval_startup = "yes")
    + int(eval.eval_salary = "yes")

\* JobExport(**d) with d = job.model_dump() | eval.model_dump() and the score
\* (ai_review.py:182-193): the posting's fields, the evaluation's, the score.
JobExport(job, eval) ==
    [job |-> job, eval |-> eval, evaluation_score |-> evaluation_score(eval)]

\* combine_jobs_and_evaluations is entered (ai_review.py:180).
combine_jobs_and_evaluations ==
    /\ cpc = "idle"
    /\ cpc' = "loop"
    /\ cidx' = 0
    /\ export_data' = <<>>
    /\ UNCHANGED <<listings, evaluations>>
    /\ UNCHANGED <<batchVars, embedVars, pipelineVars>>

\* for job, eval in zip(listings, evaluations) (ai_review.py:181-193).
combine_loop ==
    /\ cpc = "loop"
    /\ cidx < Len(zip(listings, evaluations))
    /\ LET pair == zip(listings, evaluations)[cidx + 1]
       IN export_data' = Append(export_data, JobExport(pair[1], pair[2]))
    /\ cidx' = cidx + 1
    /\ UNCHANGED <<listings, evaluations, cpc>>
    /\ UNCHANGED <<batchVars, embedVars, pipelineVars>>

\* return export_data (ai_review.py:194).
combine_return ==
    /\ cpc = "loop"
    /\ cidx = Len(zip(listings, evaluations))
    /\ cpc' = "done"
    /\ UNCHANGED <<listings, evaluations, cidx, export_data>>
    /\ UNCHANGED <<batchVars, embedVars, pipelineVars>>

\* The evaluation lists of the model: any of the 3^7 evaluations first, then
\* evaluations that answer every question alike.
EvaluationLists ==
    {<<>>} \cup
    {<<e>> \o rest : e \in JobEvaluation,
                     rest \in SeqsUpTo({AllAnswer("yes"), AllAnswer("no")}, MaxPairs - 1)}

ScoreInit ==
    /\ evaluations \in EvaluationLists
    /\ listings \in [1..Len(evaluations) -> JobPostings]
    /\ cpc = "idle"
    /\ cidx = 0
    /\ export_data = <<>>
    /\ BatchIdle
    /\ EmbedIdle
    /\ PipelineIdle

ScoreNext == combine_jobs_and_evaluations \/ combine_loop \/ combine_return

ScoreSpec == ScoreInit /\ [][ScoreNext]_vars

\* [x]: 1 when x holds, 0 otherwise.
Bracket(x) == IF x THEN 1 ELSE 0

\* C10: the score of every export record is [role_type = yes] + [seniority =
\* yes] + [location = yes] + [positive_industry = yes] - [negative_industry =
\* no] + [startup = yes] + [salary = yes] of its own evaluation, whatever the
\* posting and the pairs before it; seven "yes" give 6, and six "yes" with
\* negative_industry "no" give 5.
C10_ScoreIsTheFormula ==
    /\ Len(export_data) = cidx
    /\ \A k \in 1..Len(export_data) :
         LET e == evaluations[k]
             x == export_data[k]
         IN /\ x.evaluation_score =
                   Bracket(e.eval_role_type = "yes") + Bracket(e.eval_seniority = "yes")
                   + Bracket(e.eval_location = "yes")
                   + Bracket(e.eval_positive_industry = "yes")
                   - Bracket(e.eval_negative_industry = "no")
                   + Bracket(e.eval_startup = "yes") + Bracket(e.eval_salary = "yes")
            /\ x.eval = e
            /\ x.job = listings[k]
            /\ e = AllAnswer("yes") => x.evaluation_score = 6
            /\ e = [AllAnswer("yes") EXCEPT !.eval_negative_industry = "no"]
                   => x.evaluation_score = 5

\* C10's case: two pairs were folded, the first with six "yes" and
\* negative_industry "no", the second with seven "yes".
C10_Witness ==
    /\ cpc = "done"
    /\ Len(export_data) = 2
    /\ evaluations[1] = [AllAnswer("yes") EXCEPT !.eval_negative_industry = "no"]
    /\ export_data[1].evaluation_score = 5
    /\ evaluations[2] = AllAnswer("yes")
    /\ export_data[2].evaluation_score = 6

(***************************************************************************)
(* The claims about llm, llm_async and llm_batch.                          *)
(***************************************************************************)
\* The number of prompt pairs of the call, and pair i, as the caller gave them.
NPairs == IF system_prompt.str THEN Len(user_prompt.val) ELSE Len(system_prompt.val)
PairGiven(i) ==
    << IF system_prompt.str THEN system_prompt.val[1] ELSE system_prompt.val[i],
       IF user_prompt.str THEN user_prompt.val[1] ELSE user_prompt.val[i] >>

\* What the stubbed endpoint answers to the pair (a, b).
ReplyTo(pair) ==
    IF response_format = "None" THEN RawText(Messages(pair)) ELSE Parsed(Messages(pair))

Sum(f) ==
    LET RECURSIVE S(_)
        S(k) == IF k = 0 THEN 0 ELSE f[k] + S(k - 1)
    IN S(Len(f))

\* C1: when llm_batch returns, the list it returns has one value per prompt
\* pair and its i-th value is the response to the i-th pair, in whatever order
\* the remote calls completed.
C1_BatchResultsInInputOrder ==
    (call = "llm_batch" /\ status = "returned") =>
        /\ Len(result) = NPairs
        /\ \A i \in 1..NPairs : result[i] = ReplyTo(PairGiven(i))

\* C1's case: a batch of two different pairs returned after its second call
\* completed before its first.
C1_Witness ==
    /\ call = "llm_batch"
    /\ status = "returned"
    /\ completed = <<2, 1>>
    /\ result[1] # result[2]

BothStr == system_prompt.str /\ user_prompt.str
LengthsDiffer ==
    /\ ~system_prompt.str
    /\ ~user_prompt.str
    /\ Len(system_prompt.val) # Len(user_prompt.val)

NothingStarted ==
    /\ tasks = <<>>
    /\ grants = <<>>
    /\ ~locked
    /\ waiters = {}
    /\ \A i \in DOMAIN pc : acquired[i] = 0 /\ sent[i] = 0

\* C2: llm_batch given two strs, or two lists of different lengths, raises a
\* usage error, and no acquisition was granted and no request sent by then.
C2_UsageErrorBeforeAnyRequest ==
    (call = "llm_batch" /\ status # "idle" /\ (BothStr \/ LengthsDiffer)) =>
        /\ status = "raised"
        /\ error = (IF BothStr THEN TypeError ELSE LengthError)
        /\ NothingStarted

\* C2's case: llm_batch has been called with lists of different lengths, none empty.
C2_Witness ==
    /\ call = "llm_batch"
    /\ status = "raised"
    /\ LengthsDiffer
    /\ system_prompt.val # <<>>
    /\ user_prompt.val # <<>>

\* C5: in a batch every call sends its request only after its own acquisition
\* was granted, is granted at most one acquisition and sends at most one
\* request; the requests sent never outnumber the acquisitions granted.
C5_RequestAfterOwnAdmission ==
    call = "llm_batch" =>
        /\ \A i \in DOMAIN pc : sent[i] <= acquired[i] /\ acquired[i] <= 1
        /\ Sum(sent) <= Len(grants)
        /\ Len(grants) = Sum(acquired)

\* C5's case: one call of a batch has sent its request while another still
\* waits on the limiter.
C5_Witness ==
    /\ call = "llm_batch"
    /\ \E i \in DOMAIN pc : pc[i] = "sent" /\ sent[i] = 1
    /\ \E j \in DOMAIN pc : pc[j] = "waiting" /\ sent[j] = 0

\* C6: once a call of a batch has failed, llm_batch returns no list: when it
\* ends it raises the error of the first call that failed; the failed call
\* sent its one request and no other.
C6_AnyFailureFailsTheBatch ==
    (call = "llm_batch" /\ \E i \in DOMAIN pc : pc[i] = "failed") =>
        /\ status \in {"running", "raised"}
        /\ result = <<>>
        /\ status = "raised" =>
             /\ error \in {NoContent, NoParsed, TransportError}
             /\ error = outcome[FirstFailed]
        /\ \A i \in DOMAIN pc : pc[i] = "failed" => sent[i] = 1

\* C6's case: llm_batch raised after one of its calls returned a value and
\* another failed.
C6_Witness ==
    /\ call = "llm_batch"
    /\ status = "raised"
    /\ \E i \in DOMAIN pc : pc[i] = "failed"
    /\ \E j \in DOMAIN pc : pc[j] = "done"

\* What a completion call must make of the response r under format fmt.
Conforms(fmt, r, value) ==
    IF r.failed THEN value = TransportError
    ELSE IF fmt = "None"
    THEN IF r.content = None THEN value = NoContent
         ELSE value = r.content /\ value.kind = "text"
    ELSE IF r.parsed = None THEN value = NoParsed
         ELSE value = r.parsed /\ value.kind = "parsed"

\* C7: a single call given a schema returns the parsed instance or raises,
\* and raises when the response has no parsed instance; given no schema it
\* returns the raw text, and raises when the response has no content.
C7_SchemaInstanceOrError ==
    /\ \A i \in DOMAIN pc :
         pc[i] \in {"done", "failed"} =>
            /\ Conforms(response_format, response[i], outcome[i])
            /\ pc[i] = "failed" <=> outcome[i] \in Errors
    /\ (call \in {"llm", "llm_async"} /\ status = "returned") =>
            /\ pc[1] = "done"
            /\ result = <<outcome[1]>>
            /\ result[1].kind = (IF response_format = "None" THEN "text" ELSE "parsed")
    /\ (call \in {"llm", "llm_async"} /\ status = "raised") =>
            /\ pc[1] = "failed"
            /\ error = outcome[1]
            /\ result = <<>>

\* C7's case: a call of llm with a schema raised on a response that has raw
\* content and no parsed instance.
C7_Witness ==
    /\ call = "llm"
    /\ response_format = "schema"
    /\ status = "raised"
    /\ response[1].content # None
    /\ response[1].parsed = None
    /\ error = NoParsed

(***************************************************************************)
(* The claims about the rate limiter, under LimiterSpec and FairSpec.      *)
(***************************************************************************)
\* C3: the k-th acquisition granted is granted no earlier than
\* (k - 1) * 60 / reqs_per_minute seconds after the first.
C3_GrantsSpacedByRate ==
    \A k \in 1..Len(grants) :
        (grants[k] - grants[1]) * reqs_per_minute >= (k - 1) * 60 * TicksPerSecond

\* C3's case: three calls of a batch were granted under 60 requests a minute,
\* the last two at once by a late timer.
C3_Witness ==
    /\ reqs_per_minute = DefaultRate
    /\ Len(grants) = 3
    /\ waiters = {}
    /\ grants[2] = grants[3]
    /\ grants[3] > grants[1]

\* C4: every call that waits on the limiter is eventually granted admission.
C4_NoWaiterStarves ==
    \A i \in 1..MaxWaiters :
        (i \in DOMAIN pc /\ pc[i] = "waiting") ~> (i \in DOMAIN pc /\ acquired[i] = 1)

\* C4's case: a batch of three whose calls all waited or were granted, and every
\* one has been granted, the last after the first.
C4_Witness ==
    /\ Len(tasks) = 3
    /\ \A i \in DOMAIN pc : pc[i] \in {"admitted", "sent"} /\ acquired[i] = 1
    /\ waiters = {}
    /\ ~progress_bar
    /\ grants[3] > grants[2]
    /\ grants[2] = TimeBetweenCalls

(***************************************************************************)
(* run_ai_review (ai_review.py:196-203): the postings of data/listings.json *)
(* are evaluated by one batch under the JobEvaluation schema, folded with  *)
(* their evaluations and written to data/export_data.json.                 *)
(***************************************************************************)
\* listing_to_text (extract.py:99-113): one line "Label: value" per field; the
\* model renders the job_title.
listing_to_text(listing) == <<"T", ":", " ">> \o listing.job_title

\* The prompt of evaluate_jobs (ai_review.py:53-56): an indented literal.
ReviewPrompt == <<" ", "r", " ">>

\* Mutant: the texts are taken in another order than the postings.
job_texts_reversed(jobs) ==
    [i \in 1..Len(jobs) |-> listing_to_text(jobs[Len(jobs) + 1 - i])]

\* job_texts (ai_review.py:57).
job_texts(jobs) == [i \in 1..Len(jobs) |-> listing_to_text(jobs[i])]

\* A posting that renders to the text of another.
ReviewPostings == JobPostings \cup { [job_id |-> "4003", job_title |-> <<"a">>] }

\* What load_listings may find in data/listings.json (ai_review.py:20-27):
\* postings of different job ids, as run_extraction writes them.
ListingFiles ==
    {l \in SeqsUpTo(ReviewPostings, MaxListings) :
        \A i, j \in 1..Len(l) : l[i].job_id = l[j].job_id => i = j}

ExportPath == "data/export_data.json"

\* open(name, "w") and json.dump: the file holds the content, whatever it held.
Write(fs, name, dumped) ==
    [n \in DOMAIN fs \cup {name} |-> IF n = name THEN dumped ELSE fs[n]]

\* run_ai_review up to the call of llm_batch (ai_review.py:197-199, 52-60, and
\* llm.py:21-36 for the client).
run_ai_review ==
    /\ rpc \in {"idle", "done", "raised"}
    /\ runs < MaxRuns
    /\ runs' = runs + 1
    /\ rpc' = "evaluate"
    /\ \E l \in ListingFiles : listings' = l
    /\ call' = "llm_batch"
    /\ system_prompt' = Str(ReviewPrompt)
    /\ user_prompt' = List(job_texts(listings'))
    /\ response_format' = "JobEvaluation"
    /\ progress_bar' = TRUE
    /\ reqs_per_minute' = ReviewRate
    /\ status' = "idle"
    /\ error' = NoError
    /\ result' = <<>>
    /\ tasks' = <<>>
    /\ NewTasks(0, "new")
    /\ completed' = <<>>
    /\ locked' = FALSE
    /\ waiters' = {}
    /\ next_wakeup' = 0
    /\ now' = 0
    /\ grants' = <<>>
    /\ evaluations' = <<>>
    /\ cpc' = "idle"
    /\ cidx' = 0
    /\ export_data' = <<>>
    /\ UNCHANGED <<files, written>>
    /\ UNCHANGED <<embedVars, dbVars, extractVars, chunkVars, notionVars>>

\* await evaluate_jobs(...) ends (ai_review.py:199): the list of the batch, or
\* its exception, which run_ai_review does not catch.
run_ai_review_evaluated ==
    /\ rpc = "evaluate"
    /\ status \in {"returned", "raised"}
    /\ IF status = "returned"
       THEN /\ evaluations' = [i \in 1..Len(result) |-> result[i].of]
            /\ rpc' = "combine"
       ELSE /\ rpc' = "raised"
            /\ UNCHANGED evaluations
    /\ UNCHANGED <<listings, cpc, cidx, export_data, files, written, runs>>
    /\ UNCHANGED <<batchVars, embedVars, dbVars, extractVars, chunkVars, notionVars>>

\* with open("data/export_data.json", "w") ... json.dump (ai_review.py:201-203).
run_ai_review_write ==
    /\ rpc = "combine"
    /\ cpc = "done"
    /\ files' = Write(files, ExportPath, export_data)
    /\ written' = Append(written, export_data)
    /\ rpc' = "done"
    /\ UNCHANGED <<runs, scoreVars>>
    /\ UNCHANGED <<batchVars, embedVars, dbVars, extractVars, chunkVars, notionVars>>

ReviewInit == BatchIdle /\ EmbedIdle /\ ScoreIdle /\ PipelineIdle

\* The steps of a run once it has started.
ReviewSteps ==
    \/ /\ rpc = "evaluate"
       /\ \/ llm_batch
          \/ \E i \in DOMAIN pc : chat_async_wait(i)
          \/ \E i \in DOMAIN pc : chat_async_send(i)
          \/ \E i \in DOMAIN pc : Respond(i)
          \/ Wakeup
          \/ Tick
          \/ gather_return
          \/ gather_raise
    \/ run_ai_review_evaluated
    \/ /\ rpc = "combine"
       /\ \/ combine_jobs_and_evaluations
          \/ combine_loop
          \/ combine_return
    \/ run_ai_review_write

\* One run of run_ai_review.
ReviewNext == (rpc = "idle" /\ run_ai_review) \/ ReviewSteps

ReviewSpec == ReviewInit /\ [][ReviewNext]_vars

\* Up to MaxRuns runs of run_ai_review, one after the other.
RerunNext == run_ai_review \/ ReviewSteps

RerunSpec == ReviewInit /\ [][RerunNext]_vars

\* C11: the records run_ai_review folds are one per posting, in the order of
\* the postings: record i carries posting i and the evaluation the endpoint
\* returned to the request made of the text of posting i, in whatever order
\* the requests completed.
C11_ExportFollowsPostings ==
    (rpc \in {"combine", "done"} /\ cpc = "done") =>
        /\ Len(export_data) = Len(listings)
        /\ \A i \in 1..Len(listings) :
             /\ export_data[i].job = listings[i]
             /\ request[i].messages =
                   <<clean_string(ReviewPrompt), clean_string(listing_to_text(listings[i]))>>
             /\ response[i].parsed = Instance(export_data[i].eval)
             /\ export_data[i].eval \in ReviewEvaluations

\* C11's case: two postings with different texts got different evaluations,
\* the second request completing first.
C11_Witness ==
    /\ rpc = "done"
    /\ Len(listings) = 2
    /\ listings[1].job_title # listings[2].job_title
    /\ completed = <<2, 1>>
    /\ export_data[1].eval # export_data[2].eval

\* C17: the output of every completed run of run_ai_review is still the
\* content of some file.
C17_EarlierOutputsKept ==
    \A k \in 1..Len(written) : \E n \in DOMAIN files : files[n] = written[k]

(***************************************************************************)
(* The capture store (db.py:9-50): table pages with UNIQUE(url,            *)
(* content_hash), filled by INSERT OR IGNORE.                              *)
(***************************************************************************)
\* The URLs of the model: a URL is its query, a sequence of <<name, value>>.
Url(id) == << <<"currentJobId", id>> >>
Urls == { Url("4001"), Url("4002") }

\* The HTML of the model: whether it has a body and in it the job-details
\* element, and the text of that element.
Html(b, d, t) == [body |-> b, details |-> d, text |-> t]
Htmls == { Html(TRUE, TRUE, <<"a">>), Html(TRUE, TRUE, <<"b">>) }

\* The metadata of the model: a dict with a search_label, or None.
Label == [search_label |-> "ds"]
Metadatas == { None, Label }

\* RawPage (typedefs.py:10-14).
RawPage(u, t, h, m) == [url |-> u, title |-> t, html |-> h, metadata |-> m]
RawPages == { RawPage(u, t, h, m) :
                u \in Urls, t \in {"t1", "t2"}, h \in Htmls, m \in Metadatas }

\* hashlib.sha256(html.encode()).hexdigest() (db.py:36): different contents
\* have different digests.
sha256(html) == <<"sha256", html>>

\* json.dumps (db.py:46).
json_dumps(x) == <<"json", x>>

\* The row INSERT builds (db.py:40-47): id by AUTOINCREMENT, capture_time the
\* time of the insert, counted in calls of save_page.
Row(table, page, time) ==
    [id |-> Len(table) + 1, url |-> page.url, title |-> page.title,
     html |-> page.html, metadata |-> json_dumps(page.metadata),
     capture_time |-> time, content_hash |-> sha256(page.html)]

\* Mutant: UNIQUE(url): a URL is stored once, whatever its content.
ConflictsOnUrl(table, row) == \E k \in 1..Len(table) : table[k].url = row.url

\* UNIQUE(url, content_hash) (db.py:28): the row conflicts with a stored row.
Conflicts(table, row) ==
    \E k \in 1..Len(table) :
        table[k].url = row.url /\ table[k].content_hash = row.content_hash

\* INSERT OR IGNORE (db.py:42): a conflicting row is dropped.
InsertOrIgnore(table, row) == IF Conflicts(table, row) THEN table ELSE Append(table, row)

\* DB.save_page (db.py:34-50).
save_page ==
    /\ Len(saved) < MaxSaves
    /\ \E page \in RawPages :
         /\ pages' = InsertOrIgnore(pages, Row(pages, page, Len(saved) + 1))
         /\ saved' = Append(saved, page)
    /\ UNCHANGED <<batchVars, embedVars, scoreVars, reviewVars, extractVars, chunkVars, notionVars>>

\* DB.__init__ on a new file (db.py:10-32): the table is empty.
DbInit == BatchIdle /\ EmbedIdle /\ ScoreIdle /\ PipelineIdle

DbNext == save_page

DbSpec == DbInit /\ [][DbNext]_vars

\* The first call of save_page that gave the pair (url, html).
FirstSave(u, h) ==
    CHOOSE k \in 1..Len(saved) :
        /\ saved[k].url = u /\ saved[k].html = h
        /\ \A j \in 1..(k - 1) : ~(saved[j].url = u /\ saved[j].html = h)

\* C16: the table holds one row for each (url, html) pair ever saved, with the
\* title and metadata of the first save of the pair, the rows in the order of
\* those first saves; a later save changes no row that is there.
C16_OneRowPerUrlAndContent ==
    /\ \A k \in 1..Len(saved) :
         \E r \in 1..Len(pages) :
            /\ pages[r].url = saved[k].url
            /\ pages[r].html = saved[k].html
    /\ \A r \in 1..Len(pages) :
         /\ \A q \in 1..Len(pages) :
              (pages[q].url = pages[r].url /\ pages[q].html = pages[r].html) => q = r
         /\ \E k \in 1..Len(saved) : saved[k].url = pages[r].url /\ saved[k].html = pages[r].html
         /\ LET first == saved[FirstSave(pages[r].url, pages[r].html)]
            IN /\ pages[r].title = first.title
               /\ pages[r].metadata = json_dumps(first.metadata)
               /\ pages[r].capture_time = FirstSave(pages[r].url, pages[r].html)
         /\ pages[r].id = r

\* C16's case: a pair was saved twice, the second time under another title, and
\* its URL was saved with other content too.
C16_Witness ==
    /\ Len(saved) = 3
    /\ Len(pages) = 2
    /\ saved[1].url = saved[2].url /\ saved[1].html = saved[2].html
    /\ saved[1].title # saved[2].title
    /\ saved[3].url = saved[1].url /\ saved[3].html # saved[1].html

(***************************************************************************)
(* run_extraction (extract.py:130-146): the rows of the capture store get  *)
(* a job_id from their URL, rows already in the workspace and repeated     *)
(* job ids are dropped, the text of each listing is taken from its HTML    *)
(* and one batch extracts the postings, which are written to disk.         *)
(***************************************************************************)
IndexError == [kind |-> "IndexError", of |-> <<>>]              \* extract.py:133
KeyError == [kind |-> "KeyError", of |-> <<>>]                  \* extract.py:119
NotSubscriptable == [kind |-> "TypeError: not subscriptable", of |-> <<>>]  \* extract.py:142
NoBody == [kind |-> "ValueError: HTML has no body", of |-> <<>>]           \* extract.py:47
NoDetails == [kind |-> "ValueError: No job details element found", of |-> <<>>]
ExtractErrors == {IndexError, KeyError, NotSubscriptable, NoBody, NoDetails}

\* A str a function returned.
StrValue(x) == [kind |-> "str", of |-> x]

\* parse_qs(urlparse(url).query)[param] (extract.py:117-119): the values of the
\* parameter in the order of the query; parse_qs leaves blank values out.
parse_qs(query, param) == SelectSeq(query, LAMBDA kv : kv[1] = param /\ kv[2] # "")

\* Mutant: params.get(param, [""])[0]: a missing parameter gives the empty str.
get_url_params_default(url, param) ==
    LET values == parse_qs(url, param)
    IN IF values = <<>> THEN StrValue("") ELSE StrValue(values[1][2])

\* get_url_params (extract.py:116-119): params[param][0], KeyError without it.
get_url_params(url, param) ==
    LET values == parse_qs(url, param)
    IN IF values = <<>> THEN KeyError ELSE StrValue(values[1][2])

\* get_job_id (extract.py:122-123).
get_job_id(url) == get_url_params(url, "currentJobId")

\* Mutant: an HTML without the element gives the empty text.
get_listing_text_empty(html) ==
    IF ~html.body \/ ~html.details THEN StrValue(<<>>) ELSE StrValue(html.text)

\* get_listing_text (extract.py:43-60): the text of the job-details element, the
\* cards of crap_classes taken out of it.
get_listing_text(html) ==
    IF ~html.body THEN NoBody
    ELSE IF ~html.details THEN NoDetails
    ELSE StrValue(html.text)

\* json.loads of what json.dumps stored, as parse_metadata applies it
\* (extract.py:23-28, 38).
parse_metadata(x) == x[2]

\* read_from_db (extract.py:31-40): the rows of the table, indexed from 0.
read_from_db(table) ==
    [k \in 1..Len(table) |->
        [index |-> k - 1, url |-> table[k].url, html |-> table[k].html,
         metadata |-> parse_metadata(table[k].metadata),
         capture_time |-> table[k].capture_time]]

\* data[mask]: the rows whose mask is true, in their order.
RECURSIVE Select(_, _)
Select(d, mask) ==
    IF d = <<>> THEN <<>>
    ELSE LET rest == Select(Tail(d), Tail(mask))
         IN IF Head(mask) THEN <<Head(d)>> \o rest ELSE rest

\* Series.isin (extract.py:139).
isin(col, values) == [k \in 1..Len(col) |-> col[k] \in values]

\* Mutant: duplicated(keep="last"): every occurrence but the last is marked.
duplicated_keep_last(col) ==
    [k \in 1..Len(col) |-> \E j \in (k + 1)..Len(col) : col[j] = col[k]]

\* Series.duplicated (extract.py:140): every occurrence but the first is marked.
duplicated(col) ==
    [k \in 1..Len(col) |-> \E j \in 1..(k - 1) : col[j] = col[k]]

Not(mask) == [k \in 1..Len(mask) |-> ~mask[k]]

job_ids(d) == [k \in 1..Len(d) |-> d[k].job_id]

\* The pages the scraper may have saved: two listings, a second capture of the
\* first with other content, URLs without a currentJobId or with a blank one,
\* pages without a body or without the job-details element, and a page saved
\* without metadata under a URL with a second parameter.
CapturedPages ==
    { RawPage(Url("4001"), "t1", Html(TRUE, TRUE, <<"a">>), Label),
      RawPage(Url("4002"), "t1", Html(TRUE, TRUE, <<"b">>), Label),
      RawPage(Url("4001"), "t1", Html(TRUE, TRUE, <<"b">>), Label),
      RawPage(<<>>, "t1", Html(TRUE, TRUE, <<"a">>), Label),
      RawPage(Url(""), "t1", Html(TRUE, TRUE, <<"a">>), Label),
      RawPage(Url("4002"), "t1", Html(FALSE, FALSE, <<>>), Label),
      RawPage(Url("4003"), "t1", Html(TRUE, FALSE, <<>>), Label),
      RawPage(<< <<"q", "x">>, <<"currentJobId", "4002">> >>, "t1",
              Html(TRUE, TRUE, <<"a">>), None) }

\* The table after the saves s (db.py:34-50).
RECURSIVE Stored(_)
Stored(s) ==
    IF s = <<>> THEN <<>>
    ELSE LET table == Stored(SubSeq(s, 1, Len(s) - 1))
         IN InsertOrIgnore(table, Row(table, s[Len(s)], Len(s)))

\* The prompt of extract_listings (extract.py:70-78): an indented literal.
ExtractPrompt == <<" ", "x", " ">>

ListingsCsv == "data/listings.csv"
ListingsJson == "data/listings.json"

\* run_extraction raises.
Raise(e, step) ==
    /\ xpc' = "raised"
    /\ xerror' = e
    /\ xtrace' = Append(xtrace, step)

Step(step, then) ==
    /\ xpc' = then
    /\ xtrace' = Append(xtrace, step)
    /\ UNCHANGED xerror


\* The job ids get_existing_job_ids may report (extract.py:136).
ExistingSets == { {}, {"4001"} }

\* run_extraction up to its set of existing job ids (extract.py:131-137); the
\* last row's metadata is read (extract.py:133), which an empty frame has not.
run_extraction ==
    /\ xpc = "idle"
    /\ data' = read_from_db(pages)
    /\ reqs_per_minute' = DefaultRate
    /\ IF pages = <<>>
       THEN Raise(IndexError, "read") /\ UNCHANGED existing_job_ids
       ELSE /\ Step("read", "ids")
            /\ \E e \in ExistingSets : existing_job_ids' = e
    /\ UNCHANGED <<call, system_prompt, user_prompt, response_format, progress_bar,
                   status, error, result, tasks, pc, acquired, sent, request,
                   response, outcome, completed, locked, waiters, next_wakeup, now,
                   grants>>
    /\ UNCHANGED <<embedVars, scoreVars, reviewVars, dbVars, chunkVars, notionVars>>

\* data["job_id"] = data["url"].apply(get_job_id) (extract.py:138).
derive_job_ids ==
    /\ xpc = "ids"
    /\ LET ids == [k \in 1..Len(data) |-> get_job_id(data[k].url)]
       IN IF \E k \in 1..Len(data) : ids[k].kind # "str"
          THEN /\ Raise(ids[CHOOSE k \in 1..Len(data) :
                              /\ ids[k].kind # "str"
                              /\ \A j \in 1..(k - 1) : ids[j].kind = "str"], "ids")
               /\ UNCHANGED data
          ELSE /\ Step("ids", "dedupe")
               /\ data' = [k \in 1..Len(data) |->
                            [index |-> data[k].index, url |-> data[k].url,
                             html |-> data[k].html, metadata |-> data[k].metadata,
                             capture_time |-> data[k].capture_time,
                             job_id |-> ids[k].of]]
    /\ UNCHANGED existing_job_ids
    /\ UNCHANGED <<batchVars, embedVars, scoreVars, reviewVars, dbVars, chunkVars, notionVars>>

\* The two filters (extract.py:139-141).
remove_duplicates ==
    /\ xpc = "dedupe"
    /\ LET new == Select(data, Not(isin(job_ids(data), existing_job_ids)))
       IN data' = Select(new, Not(duplicated(job_ids(new))))
    /\ Step("dedupe", "label")
    /\ UNCHANGED existing_job_ids
    /\ UNCHANGED <<batchVars, embedVars, scoreVars, reviewVars, dbVars, chunkVars, notionVars>>

\* data["search_label"] = data["metadata"].map(lambda x: x["search_label"])
\* (extract.py:142).
search_label ==
    /\ xpc = "label"
    /\ IF \E k \in 1..Len(data) : data[k].metadata = None
       THEN Raise(NotSubscriptable, "label") /\ UNCHANGED data
       ELSE /\ Step("label", "extract")
            /\ data' = [k \in 1..Len(data) |->
                         [index |-> data[k].index, url |-> data[k].url,
                          html |-> data[k].html, metadata |-> data[k].metadata,
                          capture_time |-> data[k].capture_time,
                          job_id |-> data[k].job_id,
                          search_label |-> data[k].metadata.search_label]]
    /\ UNCHANGED existing_job_ids
    /\ UNCHANGED <<batchVars, embedVars, scoreVars, reviewVars, dbVars, chunkVars, notionVars>>

\* extract_listings up to its call of llm_batch (extract.py:69-84).
extract_listings ==
    /\ xpc = "extract"
    /\ LET texts == [k \in 1..Len(data) |-> get_listing_text(data[k].html)]
       IN IF \E k \in 1..Len(data) : texts[k].kind # "str"
          THEN /\ Raise(texts[CHOOSE k \in 1..Len(data) :
                                /\ texts[k].kind # "str"
                                /\ \A j \in 1..(k - 1) : texts[j].kind = "str"],
                        "extract")
               /\ UNCHANGED <<data, call, system_prompt, user_prompt, response_format,
                              progress_bar>>
          ELSE /\ Step("extract", "batch")
               /\ data' = [k \in 1..Len(data) |->
                            [index |-> data[k].index, url |-> data[k].url,
                             html |-> data[k].html, metadata |-> data[k].metadata,
                             capture_time |-> data[k].capture_time,
                             job_id |-> data[k].job_id,
                             search_label |-> data[k].search_label,
                             listing_text |-> texts[k].of]]
               /\ call' = "llm_batch"
               /\ system_prompt' = Str(ExtractPrompt)
               /\ user_prompt' = List([k \in 1..Len(data) |-> texts[k].of])
               /\ response_format' = "ExtractedJobPosting"
               /\ progress_bar' = TRUE
    /\ UNCHANGED <<reqs_per_minute, status, error, result, tasks, pc, acquired, sent,
                   request, response, outcome, completed, locked, waiters,
                   next_wakeup, now, grants>>
    /\ UNCHANGED existing_job_ids
    /\ UNCHANGED <<embedVars, scoreVars, reviewVars, dbVars, chunkVars, notionVars>>

\* The batch ended: extract_listings builds the postings from the rows and the
\* results, or its exception reaches run_extraction (extract.py:85-92, 143).
extract_listings_return ==
    /\ xpc = "batch"
    /\ status \in {"returned", "raised"}
    /\ IF status = "returned"
       THEN /\ listings' = [k \in 1..Len(zip(data, result)) |->
                              [job_id |-> data[k].job_id,
                               job_title |-> result[k].of.job_title]]
            /\ Step("batch", "write")
       ELSE /\ Raise(error, "batch")
            /\ UNCHANGED listings
    /\ UNCHANGED <<data, existing_job_ids, evaluations, cpc, cidx, export_data>>
    /\ UNCHANGED <<batchVars, embedVars, reviewVars, dbVars, chunkVars, notionVars>>

\* data.to_csv and json.dump (extract.py:144-146).
run_extraction_write ==
    /\ xpc = "write"
    /\ files' = Write(Write(files, ListingsCsv, data), ListingsJson, listings)
    /\ Step("write", "done")
    /\ UNCHANGED <<data, existing_job_ids, rpc, written, runs>>
    /\ UNCHANGED <<batchVars, embedVars, scoreVars, dbVars, chunkVars, notionVars>>

\* The store holds what up to MaxRows calls of save_page, each with another
\* page, left in it.
ExtractInit ==
    /\ BatchIdle
    /\ EmbedIdle
    /\ ScoreIdle
    /\ ReviewIdle
    /\ ExtractIdle
    /\ ChunkIdle
    /\ NotionIdle
    /\ saved \in {s \in SeqsUpTo(CapturedPages, MaxRows) :
                    \A i, j \in 1..Len(s) : s[i] = s[j] => i = j}
    /\ pages = Stored(saved)

ExtractNext ==
    \/ run_extraction
    \/ derive_job_ids
    \/ remove_duplicates
    \/ search_label
    \/ extract_listings
    \/ /\ xpc = "batch"
       /\ \/ llm_batch
          \/ \E i \in DOMAIN pc : chat_async_wait(i)
          \/ \E i \in DOMAIN pc : chat_async_send(i)
          \/ \E i \in DOMAIN pc : Respond(i)
          \/ Wakeup
          \/ Tick
          \/ gather_return
          \/ gather_raise
    \/ extract_listings_return
    \/ run_extraction_write

ExtractSpec == ExtractInit /\ [][ExtractNext]_vars

\* run_extraction has taken the step.
Took(step) == \E k \in 1..Len(xtrace) : xtrace[k] = step

\* The step run_extraction took last.
LastStep == xtrace[Len(xtrace)]

\* extract_listings is about to be called, or was called.
Given == xpc = "extract" \/ Took("extract")

\* run_extraction has sent no request, started no batch and written no file.
NothingExtracted ==
    /\ status = "idle"
    /\ NothingStarted
    /\ listings = <<>>
    /\ DOMAIN files = {}

\* C12: the rows given to extract_listings are, in the order of the store, the
\* first row of each job id that is not among the existing job ids.
C12_FirstOccurrencesSurvive ==
    Given =>
        LET ids == [k \in 1..Len(pages) |-> get_job_id(pages[k].url).of]
            first == {k \in 1..Len(pages) :
                        /\ ids[k] \notin existing_job_ids
                        /\ \A j \in 1..(k - 1) : ids[j] # ids[k]}
        IN /\ {data[i].index + 1 : i \in 1..Len(data)} = first
           /\ \A i, j \in 1..Len(data) :
                /\ i < j => data[i].index < data[j].index
                /\ data[i].job_id = data[j].job_id => i = j
           /\ \A i \in 1..Len(data) :
                /\ data[i].job_id = ids[data[i].index + 1]
                /\ data[i].job_id \notin existing_job_ids
                /\ data[i].url = pages[data[i].index + 1].url
                /\ data[i].html = pages[data[i].index + 1].html

\* C12's case: of three stored rows the first is in the workspace already and
\* the third repeats the job id of the second; the second alone is given.
C12_Witness ==
    /\ Given
    /\ Len(pages) = 3
    /\ existing_job_ids = {"4001"}
    /\ get_job_id(pages[1].url).of = "4001"
    /\ get_job_id(pages[2].url).of = "4002"
    /\ get_job_id(pages[3].url).of = "4002"
    /\ Len(data) = 1
    /\ data[1].index = 1

\* The HTML has no body or no job-details element.
NoListing(html) == ~html.body \/ ~html.details

\* C13: when a row given to extract_listings has an HTML without body or
\* job-details element, extract_listings raises the ValueError of the first
\* such row before anything was asked of the limiter or the endpoint; no
\* posting is built, no file written, and no row has a text.
C13_UnparseableRowFailsTheBatch ==
    (Took("extract") /\ \E k \in 1..Len(data) : NoListing(data[k].html)) =>
        /\ xpc = "raised"
        /\ LastStep = "extract"
        /\ LET k == CHOOSE k \in 1..Len(data) :
                      /\ NoListing(data[k].html)
                      /\ \A j \in 1..(k - 1) : ~NoListing(data[j].html)
           IN xerror = (IF data[k].html.body THEN NoDetails ELSE NoBody)
        /\ NothingExtracted
        /\ call # "llm_batch"
        /\ \A k \in 1..Len(data) : "listing_text" \notin DOMAIN data[k]

\* C13's case: two rows were given, the first with a listing and the second
\* with a body that lacks the job-details element.
C13_Witness ==
    /\ xpc = "raised"
    /\ xerror = NoDetails
    /\ Len(data) = 2
    /\ ~NoListing(data[1].html)
    /\ NoListing(data[2].html)

\* The URL has no currentJobId parameter with a value.
LacksJobId(url) ==
    ~ \E i \in 1..Len(url) : url[i][1] = "currentJobId" /\ url[i][2] # ""

ChunkLimit == 6

Chars == {"x", ".", " ", "\n"}

\* str.split(sep): the pieces between the occurrences of sep, found from the left.
RECURSIVE split(_, _)
split(s, sep) ==
    LET n == Len(sep)
        hits == {i \in 1..(Len(s) - n + 1) : SubSeq(s, i, i + n - 1) = sep}
    IN IF hits = {} THEN <<s>>
       ELSE LET i == CHOOSE i \in hits : \A j \in hits : i <= j
            IN <<SubSeq(s, 1, i - 1)>> \o split(SubSeq(s, i + n, Len(s)), sep)

\* The loop over the sentences of an oversized chunk (notion.py:101-110).
RECURSIVE pack_sentences(_, _, _)
pack_sentences(sentences, current_chunk, final_chunks) ==
    IF sentences = <<>>
    THEN IF current_chunk # <<>>
         THEN Append(final_chunks, rstrip(current_chunk))
         ELSE final_chunks
    ELSE LET sentence == Head(sentences)
         IN IF Len(current_chunk) + Len(sentence) + 2 <= ChunkLimit
            THEN pack_sentences(Tail(sentences),
                                current_chunk \o sentence \o <<".", " ">>,
                                final_chunks)
            ELSE pack_sentences(Tail(sentences),
                                sentence \o <<".", " ">>,
                                IF current_chunk # <<>>
                                THEN Append(final_chunks, rstrip(current_chunk))
                                ELSE final_chunks)

\* The loop over the chunks (notion.py:96-112).
RECURSIVE split_chunks(_, _)
split_chunks(chunks, final_chunks) ==
    IF chunks = <<>> THEN final_chunks
    ELSE LET chunk == Head(chunks)
         IN split_chunks(Tail(chunks),
                         IF Len(chunk) > ChunkLimit
                         THEN pack_sentences(split(chunk, <<".", " ">>), <<>>, final_chunks)
                         ELSE Append(final_chunks, chunk))

RichText(chunk) == [text |-> [content |-> chunk]]

\* split_long_rich_text (notion.py:87-113).
split_long_rich_text(c) ==
    IF Len(c) < ChunkLimit
    THEN << RichText(c) >>
    ELSE LET final_chunks == split_chunks(split(c, <<"\n">>), <<>>)
             kept == SelectSeq(final_chunks, LAMBDA chunk : strip(chunk) # <<>>)
         IN [k \in 1..Len(kept) |-> RichText(kept[k])]

\* A call of split_long_rich_text.
split_text ==
    /\ spc = "idle"
    /\ rich_text' = split_long_rich_text(content)
    /\ spc' = "done"
    /\ UNCHANGED content
    /\ UNCHANGED <<batchVars, embedVars, scoreVars, reviewVars, dbVars, extractVars,
                   notionVars>>

ChunkInit ==
    /\ BatchIdle
    /\ EmbedIdle
    /\ ScoreIdle
    /\ ReviewIdle
    /\ DbIdle
    /\ ExtractIdle
    /\ NotionIdle
    /\ content \in SeqsUpTo(Chars, MaxContent)
    /\ spc = "idle"
    /\ rich_text = <<>>

ChunkNext == split_text

ChunkSpec == ChunkInit /\ [][ChunkNext]_vars

\* C14: no chunk split_long_rich_text returns is longer than the ceiling.
C14_ChunksWithinCeiling ==
    spc = "done" =>
        \A k \in 1..Len(rich_text) : Len(rich_text[k].text.content) <= ChunkLimit

Blank(c) == c \in {" ", "\n"}

\* The chunks are pieces of s in order, with only whitespace and line breaks of
\* s between them, before the first and after the last.
RECURSIVE Pieces(_, _)
Pieces(chunks, s) ==
    IF chunks = <<>> THEN \A i \in 1..Len(s) : Blank(s[i])
    ELSE LET c == Head(chunks)
         IN \E k \in 0..(Len(s) - Len(c)) :
               /\ \A i \in 1..k : Blank(s[i])
               /\ SubSeq(s, k + 1, k + Len(c)) = c
               /\ Pieces(Tail(chunks), SubSeq(s, k + Len(c) + 1, Len(s)))

\* C15: the chunks split_long_rich_text returns are contiguous pieces of its
\* input in order; what lies between them is whitespace and line breaks.
C15_ChunksArePiecesOfInput ==
    spc = "done" =>
        Pieces([k \in 1..Len(rich_text) |-> rich_text[k].text.content], content)

(***************************************************************************)
(* The Notion workspace: ensure_notion_database and export_to_notion       *)
(* (src/src/notion.py).                                                    *)
(***************************************************************************)
APIResponseError == [kind |-> "APIResponseError", of |-> <<>>]
FileNotFoundError == [kind |-> "FileNotFoundError", of |-> <<>>]

\* The id of the n-th database created in the workspace.
DatabaseId(n) == <<"db", n>>

\* database["id"] of notion_client.databases.create (notion.py:27-34): an id no
\* database of the workspace has.
create_notion_database(dbs) == DatabaseId(Cardinality(dbs) + 1)

\* `if database_id:` (notion.py:55): None and the empty string are false.
Truthy(v) == v.of # <<>>

\* The values of database_id: None, the empty string, the id of the first
\* database of the workspace, an id no database has.
DatabaseIds == {None, StrValue(<<>>), StrValue(DatabaseId(1)), StrValue(DatabaseId(0))}

\* The value ensure_notion_database returns and the databases of the workspace
\* after it (notion.py:55-64): retrieve raises APIResponseError for an id no
\* database has; without a truthy id the function falls off its end.
ensure_result(database_id, dbs) ==
    IF Truthy(database_id)
    THEN IF database_id.of \in dbs
         THEN [returned |-> database_id, after |-> dbs]
         ELSE [returned |-> StrValue(create_notion_database(dbs)),
               after |-> dbs \cup {create_notion_database(dbs)}]
    ELSE [returned |-> None, after |-> dbs]

\* One call of ensure_notion_database (notion.py:37-64).
ensure_notion_database ==
    /\ Len(ensured) < MaxEnsure
    /\ \E database_id \in DatabaseIds :
          LET r == ensure_result(database_id, databases)
          IN /\ databases' = r.after
             /\ ensured' = Append(ensured, [database_id |-> database_id,
                                            before |-> databases,
                                            after |-> r.after,
                                            returned |-> r.returned])
    /\ UNCHANGED <<notion_pages, notion_db_id, npc, nidx, attempts, nerror>>
    /\ UNCHANGED <<batchVars, embedVars, scoreVars, reviewVars, dbVars, extractVars,
                   chunkVars>>

\* job_posting_property_map (ai_review.py:149-174), the keys the model's records
\* have.
job_posting_property_map ==
    [title |-> "Title", job_id |-> "Job ID", evaluation_score |-> "Evaluation Score"]

\* job_posting.model_dump() (notion.py:139).
model_dump(job_posting) ==
    [title |-> job_posting.job.job_title,
     job_id |-> job_posting.job.job_id,
     evaluation_score |-> job_posting.evaluation_score]

\* value_to_notion (notion.py:67-84): a title, a number, a string; a string
\* below the ceiling is one element of rich text (notion.py:91-92).
value_to_notion(key, value) ==
    IF key = "title" THEN [title |-> <<RichText(value)>>]
    ELSE IF key = "evaluation_score" THEN [number |-> value]
    ELSE [rich_text |-> <<RichText(value)>>]

\* job_posting_to_notion_page (notion.py:124-151): label -> property.
job_posting_to_notion_page(property_label_map, job_posting) ==
    LET record == model_dump(job_posting)
        label(k) == property_label_map[k]
    IN [l \in {label(k) : k \in DOMAIN property_label_map} |->
           LET k == CHOOSE x \in DOMAIN property_label_map : label(x) = l
           IN value_to_notion(k, record[k])]

\* The arguments of notion_client.pages.create (notion.py:176-179).
Page(database_id, job_posting) ==
    [parent |-> [database_id |-> database_id],
     properties |-> job_posting_to_notion_page(job_posting_property_map, job_posting)]

\* The records a file data/export_data.json holds.
JobExports == {JobExport(job, eval) : job \in JobPostings, eval \in ReviewEvaluations}
ExportFiles == SeqsUpTo(JobExports, MaxExport)

\* load_export_data (notion.py:117-121).
load_export_data(fs) == fs[ExportPath]

\* export_to_notion up to its loop (notion.py:186-216): without NOTION_DB_ID a
\* database is created, then the export file is read.  databases.create and
\* open can raise.
export_to_notion ==
    /\ npc = "idle"
    /\ \/ /\ notion_db_id = None
          /\ npc' = "raised"
          /\ nerror' = APIResponseError
          /\ UNCHANGED <<databases, notion_db_id, export_data, attempts>>
       \/ /\ IF notion_db_id = None
             THEN /\ notion_db_id' = StrValue(create_notion_database(databases))
                  /\ databases' = databases \cup {create_notion_database(databases)}
             ELSE UNCHANGED <<notion_db_id, databases>>
          /\ IF ExportPath \in DOMAIN files
             THEN /\ export_data' = load_export_data(files)
                  /\ attempts' = [k \in 1..Len(load_export_data(files)) |-> 0]
                  /\ npc' = "loop"
                  /\ UNCHANGED nerror
             ELSE /\ npc' = "raised"
                  /\ nerror' = FileNotFoundError
                  /\ UNCHANGED <<export_data, attempts>>
    /\ UNCHANGED <<notion_pages, nidx, ensured>>
    /\ UNCHANGED <<listings, evaluations, cpc, cidx>>
    /\ UNCHANGED <<batchVars, embedVars, reviewVars, dbVars, extractVars, chunkVars>>

\* add_job_posting_to_notion with the error caught (mutant: the handler prints
\* and returns False, the loop goes on).
add_job_posting_to_notion_returning_false ==
    /\ npc = "loop"
    /\ nidx < Len(export_data)
    /\ attempts' = [attempts EXCEPT ![nidx + 1] = @ + 1]
    /\ nidx' = nidx + 1
    /\ \/ /\ notion_db_id.of \in databases
          /\ notion_pages' = Append(notion_pages,
                                    Page(notion_db_id, export_data[nidx + 1]))
       \/ UNCHANGED notion_pages
    /\ UNCHANGED <<databases, notion_db_id, npc, nerror, ensured>>
    /\ UNCHANGED <<batchVars, embedVars, scoreVars, reviewVars, dbVars, extractVars,
                   chunkVars>>

\* add_job_posting_to_notion for the next listing of the loop (notion.py:154-183,
\* 218-225): pages.create adds the row, or raises and the error is raised again,
\* which ends export_to_notion.
add_job_posting_to_notion ==
    /\ npc = "loop"
    /\ nidx < Len(export_data)
    /\ attempts' = [attempts EXCEPT ![nidx + 1] = @ + 1]
    /\ \/ /\ notion_db_id.of \in databases
          /\ notion_pages' = Append(notion_pages,
                                    Page(notion_db_id, export_data[nidx + 1]))
          /\ nidx' = nidx + 1
          /\ UNCHANGED <<npc, nerror>>
       \/ /\ npc' = "raised"
          /\ nerror' = APIResponseError
          /\ UNCHANGED <<notion_pages, nidx>>
    /\ UNCHANGED <<databases, notion_db_id, ensured>>
    /\ UNCHANGED <<batchVars, embedVars, scoreVars, reviewVars, dbVars, extractVars,
                   chunkVars>>

\* The loop of export_to_notion is exhausted (notion.py:218-225).
export_to_notion_return ==
    /\ npc = "loop"
    /\ nidx = Len(export_data)
    /\ npc' = "done"
    /\ UNCHANGED <<databases, notion_pages, notion_db_id, nidx, attempts, nerror,
                   ensured>>
    /\ UNCHANGED <<batchVars, embedVars, scoreVars, reviewVars, dbVars, extractVars,
                   chunkVars>>

\* The workspace has no database or one; NOTION_DB_ID is unset or names the
\* first database; the export file is absent or holds a list of records.
NotionInit ==
    /\ BatchIdle
    /\ EmbedIdle
    /\ ScoreIdle
    /\ DbIdle
    /\ ExtractIdle
    /\ ChunkIdle
    /\ rpc = "idle"
    /\ written = <<>>
    /\ runs = 0
    /\ files \in {[n \in {} |-> <<>>]} \cup
                 {[n \in {ExportPath} |-> f] : f \in ExportFiles}
    /\ databases \in {{}, {DatabaseId(1)}}
    /\ notion_db_id \in {None, StrValue(DatabaseId(1))}
    /\ notion_pages = <<>>
    /\ npc = "idle"
    /\ nidx = 0
    /\ attempts = <<>>
    /\ nerror = NoError
    /\ ensured = <<>>

NotionNext ==
    \/ ensure_notion_database
    \/ export_to_notion
    \/ add_job_posting_to_notion
    \/ export_to_notion_return

NotionSpec == NotionInit /\ [][NotionNext]_vars

\* The rows of the first n records of the export list, in order.
RowsOf(n) == [k \in 1..n |-> Page(notion_db_id, export_data[k])]

\* C18: the rows export_to_notion has created are those of a prefix of the
\* export list in its order, each record tried at most once; when creating the
\* row of record k fails the call raises that error, the rows before k stay
\* and no record after k is tried.
C18_ExportedRecordsArePrefix ==
    /\ nidx <= Len(export_data)
    /\ notion_pages = RowsOf(nidx)
    /\ \A k \in DOMAIN attempts :
          attempts[k] = (IF k <= nidx \/ (k = nidx + 1 /\ nerror = APIResponseError)
                         THEN 1 ELSE 0)
    /\ (npc = "raised") = (nerror # NoError)
    /\ npc = "done" => nidx = Len(export_data)

\* The second of three records failed: one row created, the third not tried.
C18_Witness ==
    /\ npc = "raised"
    /\ nerror = APIResponseError
    /\ Len(export_data) = 3
    /\ nidx = 1
    /\ Len(notion_pages) = 1
    /\ attempts = <<1, 1, 0>>

\* C19: every call of ensure_notion_database returns the id of a database the
\* workspace then has: the id given when a database has it, and nothing is
\* created; the id of a database it created in every other case.
C19_EnsureReturnsExistingDatabase ==
    \A k \in 1..Len(ensured) :
        LET c == ensured[k]
        IN /\ c.returned # None
           /\ c.returned.of \in c.after
           /\ IF Truthy(c.database_id) /\ c.database_id.of \in c.before
              THEN c.returned = c.database_id /\ c.after = c.before
              ELSE /\ c.returned.of \notin c.before
                   /\ c.after = c.before \cup {c.returned.of}

====
